---- MODULE Spec2Model ----
(***************************************************************************)
(* Model of servicenow_mcp/server_sse.py: the inbound ApiKeyMiddleware,    *)
(* create_starlette_app, ServiceNowSSEMCP.start, create_config_from_env    *)
(* and main.                                                               *)
(*                                                                         *)
(* Python strings are sequences of one-character strings.  An optional     *)
(* value (Optional[str], the result of os.getenv or headers.get) is None   *)
(* or Str(s): None is the empty tuple and Str(s) the one-element tuple     *)
(* holding s, so that None and the empty string are different values.      *)
(***************************************************************************)
EXTENDS Integers, Sequences, FiniteSets, TLC

VARIABLES env, pc, result, configCalls, log, exitCode, createArgs, app,
          served, req, resp, calls, downstream

(* env         os.environ: each variable None (unset) or Str(value)              *)
(* pc          where main stands: "main", "parsed", "configured",               *)
(*             "constructed", "serving", "exited"                                *)
(* result      None, or Str of what create_config_from_env returned or raised    *)
(* configCalls how often create_config_from_env has been called                  *)
(* log         the records handed to logger, in order                            *)
(* exitCode    None while the process runs, Str(status) once it has exited       *)
(* createArgs  None, or Str of the keyword arguments start gave                  *)
(*             create_starlette_app                                              *)
(* app         None, or the Starlette application with its middleware            *)
(* served      requests the application has taken                                *)
(* req, resp, calls, downstream                                                  *)
(*             the request being answered, its response, how often call_next     *)
(*             ran for it, and what the next handler answers; None and 0         *)
(*             between requests                                                  *)

vars == <<env, pc, result, configCalls, log, exitCode, createArgs, app,
          served, req, resp, calls, downstream>>

----------------------------------------------------------------------------
(* Bounds of the model *)

\* longest inbound key (and bearer token) the model enumerates
MaxKeyLen == 1

\* most requests one served application handles in a run of main
MaxRequests == 2

----------------------------------------------------------------------------
(* Strings and optional values *)

None == <<>>

Str(s) == <<s>>

\* Python truthiness of an Optional[str]: None and "" are falsy
Truthy(v) == v # None /\ v[1] # <<>>

UpperLetters ==
  <<"A","B","C","D","E","F","G","H","I","J","K","L","M","N","O","P","Q","R","S","T","U","V","W","X","Y","Z">>

LowerLetters ==
  <<"a","b","c","d","e","f","g","h","i","j","k","l","m","n","o","p","q","r","s","t","u","v","w","x","y","z">>

LowerChar(c) ==
  IF \E i \in 1..Len(UpperLetters) : UpperLetters[i] = c
  THEN LowerLetters[CHOOSE i \in 1..Len(UpperLetters) : UpperLetters[i] = c]
  ELSE c

\* str.lower()
Lower(s) == [i \in 1..Len(s) |-> LowerChar(s[i])]

\* str.startswith(prefix)
StartsWith(s, prefix) ==
  /\ Len(s) >= Len(prefix)
  /\ SubSeq(s, 1, Len(prefix)) = prefix

\* the slice s[n:]
SliceFrom(s, n) == SubSeq(s, n + 1, Len(s))

\* sub in s
Contains(s, sub) ==
  \E i \in 1..(Len(s) + 1) :
    /\ i + Len(sub) - 1 <= Len(s)
    /\ SubSeq(s, i, i + Len(sub) - 1) = sub

RECURSIVE StringsUpTo(_, _)
StringsUpTo(alphabet, n) ==
  IF n = 0 THEN {<<>>}
  ELSE LET shorter == StringsUpTo(alphabet, n - 1)
       IN shorter \cup {Append(s, c) : s \in shorter, c \in alphabet}

----------------------------------------------------------------------------
(* Requests *)

BearerPrefix == <<"B","e","a","r","e","r"," ">>

H_Authorization == <<"A","u","t","h","o","r","i","z","a","t","i","o","n">>

H_XApiKey == <<"X","-","A","P","I","-","K","e","y">>

H_XCustomAuth == <<"X","-","C","u","s","t","o","m","-","A","u","t","h">>

KeyAlphabet == {"a", "b"}

Keys == StringsUpTo(KeyAlphabet, MaxKeyLen)

\* Authorization values: a bare key, a Bearer token, and two near misses of the prefix
AuthorizationValues ==
  Keys \cup {BearerPrefix \o k : k \in Keys}
       \cup {<<"B","e","a","r","e","r">>, <<"b","e","a","r","e","r"," ","a">>}

\* values of the other headers: a bare key, or a Bearer token put in the wrong header
OtherValues == Keys \cup {BearerPrefix \o <<"a">>}

OptionOf(S) == {None} \cup {Str(s) : s \in S}

\* the headers of a request, by name; None where the request has no such header
Headers(authorization, x_api_key, x_custom_auth) ==
  (Lower(H_Authorization) :> authorization) @@ (Lower(H_XApiKey) :> x_api_key)
    @@ (Lower(H_XCustomAuth) :> x_custom_auth)

Requests ==
  {Headers(a, x, c) : a \in OptionOf(AuthorizationValues), x \in OptionOf(OtherValues),
                      c \in OptionOf(Keys)}

\* starlette Headers.get(name, default): the lookup ignores the case of name
HeadersGet(headers, name, default) ==
  LET k == Lower(name)
  IN IF k \in DOMAIN headers /\ headers[k] # None THEN headers[k] ELSE default

----------------------------------------------------------------------------
(* ApiKeyMiddleware *)

\* ApiKeyMiddleware.__init__
ApiKeyMiddleware(api_key, header_name) ==
  [api_key |-> api_key, header_name |-> header_name]

UnauthorizedResponse ==
  [status |-> 401,
   body |-> [error |-> "Unauthorized", message |-> "Invalid or missing API key"]]

\* what the next handler in the chain may answer
DownstreamResponses ==
  {[status |-> 200, body |-> [text |-> "OK"]],
   [status |-> 500, body |-> [text |-> "Internal Server Error"]]}

\* a bug: a missing header is read as the empty string in every mode
ProvidedKeyMissingIsEmpty(mw, headers) ==
  IF Truthy(mw.header_name)
  THEN HeadersGet(headers, mw.header_name[1], Str(<<>>))
  ELSE LET auth_header == HeadersGet(headers, H_Authorization, Str(<<>>))[1]
       IN IF StartsWith(auth_header, BearerPrefix)
          THEN Str(SliceFrom(auth_header, 7))
          ELSE HeadersGet(headers, H_XApiKey, Str(<<>>))

\* a bug: the configured header_name is ignored
ProvidedKeyIgnoresHeaderName(mw, headers) ==
  LET auth_header == HeadersGet(headers, H_Authorization, Str(<<>>))[1]
  IN IF StartsWith(auth_header, BearerPrefix)
     THEN Str(SliceFrom(auth_header, 7))
     ELSE HeadersGet(headers, H_XApiKey, None)

\* a bug: X-API-Key is tried first and the Bearer token only without it
ProvidedKeyXApiKeyFirst(mw, headers) ==
  IF Truthy(mw.header_name)
  THEN HeadersGet(headers, mw.header_name[1], None)
  ELSE LET auth_header == HeadersGet(headers, H_Authorization, Str(<<>>))[1]
       IN IF HeadersGet(headers, H_XApiKey, None) # None
          THEN HeadersGet(headers, H_XApiKey, None)
          ELSE IF StartsWith(auth_header, BearerPrefix)
               THEN Str(SliceFrom(auth_header, 7))
               ELSE None

\* dispatch, lines 62-71: the candidate key of a request
ProvidedKey(mw, headers) ==
  IF Truthy(mw.header_name)
  THEN HeadersGet(headers, mw.header_name[1], None)
  ELSE LET auth_header == HeadersGet(headers, H_Authorization, Str(<<>>))[1]
       IN IF StartsWith(auth_header, BearerPrefix)
          THEN Str(SliceFrom(auth_header, 7))
          ELSE HeadersGet(headers, H_XApiKey, None)

\* a bug: the candidate only has to begin with the expected key
KeyMismatchPrefix(provided_key, api_key) ==
  ~(provided_key # None /\ StartsWith(provided_key[1], api_key))

\* a bug: (provided_key or "") != self.api_key
KeyMismatchNoneIsEmpty(provided_key, api_key) ==
  (IF provided_key = None THEN Str(<<>>) ELSE provided_key) # Str(api_key)

\* dispatch, line 73: provided_key != self.api_key
KeyMismatch(provided_key, api_key) == provided_key # Str(api_key)

\* dispatch: the response and the number of times call_next ran, given the
\* response the next handler would produce
Dispatch(mw, headers, down) ==
  IF KeyMismatch(ProvidedKey(mw, headers), mw.api_key)
  THEN [response |-> UnauthorizedResponse, calls |-> 0]
  ELSE [response |-> down, calls |-> 1]

----------------------------------------------------------------------------
(* create_starlette_app *)

\* a bug: the authenticator is installed whether or not a key was given
create_starlette_app_always(inbound_api_key, inbound_api_key_header) ==
  [middleware |->
     Str(ApiKeyMiddleware(IF inbound_api_key = None THEN <<>> ELSE inbound_api_key[1],
                          inbound_api_key_header))]

\* a bug: the test is `inbound_api_key is not None`, so "" installs the authenticator
create_starlette_app_not_none(inbound_api_key, inbound_api_key_header) ==
  IF inbound_api_key # None
  THEN [middleware |-> Str(ApiKeyMiddleware(inbound_api_key[1], inbound_api_key_header))]
  ELSE [middleware |-> None]

\* lines 113-128: the middleware stack holds the authenticator or is empty
create_starlette_app(inbound_api_key, inbound_api_key_header) ==
  IF Truthy(inbound_api_key)
  THEN [middleware |-> Str(ApiKeyMiddleware(inbound_api_key[1], inbound_api_key_header))]
  ELSE [middleware |-> None]

\* one request through the application's chain
AppHandle(a, headers, down) ==
  IF a.middleware # None
  THEN Dispatch(a.middleware[1], headers, down)
  ELSE [response |-> down, calls |-> 1]

----------------------------------------------------------------------------
(* The middleware on its own: any expected key, any header_name *)

\* header_name as the constructor can be given it
HeaderNameArgs ==
  {None, Str(<<>>), Str(H_XCustomAuth), Str(H_XApiKey), Str(Lower(H_XApiKey)),
   Str(H_Authorization)}

\* Starlette(...).add_middleware(ApiKeyMiddleware, api_key=..., header_name=...)
InitMw ==
  /\ env = <<>>
  /\ pc = "serving"
  /\ result = None
  /\ configCalls = 0
  /\ log = <<>>
  /\ exitCode = None
  /\ createArgs = None
  /\ \E k \in Keys, h \in HeaderNameArgs :
       app = [middleware |-> Str(ApiKeyMiddleware(k, h))]
  /\ served = 0
  /\ req = None
  /\ resp = None
  /\ calls = 0
  /\ downstream = None

\* the framework hands one request to the application, which answers it
HandleRequest(r, down) ==
  /\ pc = "serving"
  /\ req = None
  /\ served < MaxRequests
  /\ LET out == AppHandle(app, r, down)
     IN /\ req' = Str(r)
        /\ resp' = Str(out.response)
        /\ calls' = out.calls
        /\ downstream' = Str(down)
  /\ served' = served + 1

Serve ==
  /\ pc = "serving"
  /\ req = None
  /\ served < MaxRequests
  /\ \E r \in Requests, down \in DownstreamResponses : HandleRequest(r, down)
  /\ UNCHANGED <<env, pc, result, configCalls, log, exitCode, createArgs, app>>

\* the response has been sent: the request and all that belonged to it are gone
Complete ==
  /\ pc = "serving"
  /\ req # None
  /\ req' = None
  /\ resp' = None
  /\ calls' = 0
  /\ downstream' = None
  /\ UNCHANGED <<env, pc, result, configCalls, log, exitCode, createArgs, app, served>>

NextMw == Serve \/ Complete

SpecMw == InitMw /\ [][NextMw]_vars

----------------------------------------------------------------------------
(* create_config_from_env *)

\* longest credential value the model enumerates
MaxCredLen == 1

\* os.getenv(name)
Getenv(e, name) == e[name]

\* os.getenv(name, default)
GetenvDefault(e, name, default) == IF e[name] = None THEN default ELSE e[name][1]

S_basic == <<"b","a","s","i","c">>

S_oauth == <<"o","a","u","t","h">>

S_api_key == <<"a","p","i","_","k","e","y">>

\* the values of the AuthType enumeration
AuthTypeValues == {S_basic, S_oauth, S_api_key}

DefaultApiKeyHeader == <<"X","-","S","e","r","v","i","c","e","N","o","w","-","A","P","I","-","K","e","y">>

TokenUrlSuffix == <<"/","o","a","u","t","h","_","t","o","k","e","n",".","d","o">>

S_InstanceUrlVar == <<"S","E","R","V","I","C","E","N","O","W","_","I","N","S","T","A","N","C","E","_","U","R","L">>

MsgInstanceUrlRequired == <<"S","E","R","V","I","C","E","N","O","W","_","I","N","S","T","A","N","C","E","_","U","R","L"," ","e","n","v","i","r","o","n","m","e","n","t"," ","v","a","r","i","a","b","l","e"," ","i","s"," ","r","e","q","u","i","r","e","d">>

MsgInvalidAuthType(shown) ==
  <<"I","n","v","a","l","i","d"," ","S","E","R","V","I","C","E","N","O","W","_","A","U","T","H","_","T","Y","P","E",":"," ","'">>
    \o shown \o
  <<"'","."," ","M","u","s","t"," ","b","e"," ","o","n","e"," ","o","f",":"," ","b","a","s","i","c",","," ","o","a","u","t","h",","," ","a","p","i","_","k","e","y">>

MsgBasicRequired == <<"S","E","R","V","I","C","E","N","O","W","_","U","S","E","R","N","A","M","E"," ","a","n","d"," ","S","E","R","V","I","C","E","N","O","W","_","P","A","S","S","W","O","R","D"," ","a","r","e"," ","r","e","q","u","i","r","e","d"," ","f","o","r"," ","b","a","s","i","c"," ","a","u","t","h">>

MsgApiKeyRequired == <<"S","E","R","V","I","C","E","N","O","W","_","A","P","I","_","K","E","Y"," ","i","s"," ","r","e","q","u","i","r","e","d"," ","f","o","r"," ","a","p","i","_","k","e","y"," ","a","u","t","h">>

MsgOAuthRequired == <<"S","E","R","V","I","C","E","N","O","W","_","C","L","I","E","N","T","_","I","D",","," ","S","E","R","V","I","C","E","N","O","W","_","C","L","I","E","N","T","_","S","E","C","R","E","T",","," ","S","E","R","V","I","C","E","N","O","W","_","U","S","E","R","N","A","M","E",","," ","a","n","d"," ","S","E","R","V","I","C","E","N","O","W","_","P","A","S","S","W","O","R","D"," ","a","r","e"," ","r","e","q","u","i","r","e","d"," ","f","o","r"," ","o","a","u","t","h">>

\* raise ValueError(message)
Raise(message) == [raised |-> TRUE, message |-> message, warnings |-> <<>>]

\* return config, after the warnings logged on the way
Return(config, warnings) == [raised |-> FALSE, config |-> config, warnings |-> warnings]

\* AuthConfig(type=..., <variant>=...): the variants not given stay None
AuthConfig(type, variant, value) ==
  [type |-> type,
   basic |-> IF variant = "basic" THEN Str(value) ELSE None,
   api_key |-> IF variant = "api_key" THEN Str(value) ELSE None,
   oauth |-> IF variant = "oauth" THEN Str(value) ELSE None]

\* ServerConfig(instance_url=..., auth=...)
ServerConfig(instance_url, auth) == [instance_url |-> instance_url, auth |-> auth]

\* a bug: the credentials are refused only when both are missing
BasicBranchBothMissing(e, instance_url) ==
  LET username == Getenv(e, "SERVICENOW_USERNAME")
      password == Getenv(e, "SERVICENOW_PASSWORD")
  IN IF ~Truthy(username) /\ ~Truthy(password)
     THEN Raise(MsgBasicRequired)
     ELSE Return(ServerConfig(instance_url,
                   AuthConfig(S_basic, "basic",
                     [username |-> GetenvDefault(e, "SERVICENOW_USERNAME", <<>>),
                      password |-> GetenvDefault(e, "SERVICENOW_PASSWORD", <<>>)])), <<>>)

\* lines 191-201
BasicBranch(e, instance_url) ==
  LET username == Getenv(e, "SERVICENOW_USERNAME")
      password == Getenv(e, "SERVICENOW_PASSWORD")
  IN IF ~Truthy(username) \/ ~Truthy(password)
     THEN Raise(MsgBasicRequired)
     ELSE Return(ServerConfig(instance_url,
                   AuthConfig(S_basic, "basic",
                     [username |-> username[1], password |-> password[1]])), <<>>)

\* lines 203-211
ApiKeyBranch(e, instance_url) ==
  LET api_key == Getenv(e, "SERVICENOW_API_KEY")
      header_name == GetenvDefault(e, "SERVICENOW_API_KEY_HEADER", DefaultApiKeyHeader)
  IN IF ~Truthy(api_key)
     THEN Raise(MsgApiKeyRequired)
     ELSE Return(ServerConfig(instance_url,
                   AuthConfig(S_api_key, "api_key",
                     [api_key |-> api_key[1], header_name |-> header_name])), <<>>)

\* lines 213-236
OAuthBranch(e, instance_url) ==
  LET client_id == Getenv(e, "SERVICENOW_CLIENT_ID")
      client_secret == Getenv(e, "SERVICENOW_CLIENT_SECRET")
      username == Getenv(e, "SERVICENOW_USERNAME")
      password == Getenv(e, "SERVICENOW_PASSWORD")
      given == Getenv(e, "SERVICENOW_TOKEN_URL")
      token_url == IF Truthy(given) THEN given[1] ELSE instance_url \o TokenUrlSuffix
      warnings == IF Truthy(given) THEN <<>>
                  ELSE <<[level |-> "WARNING",
                          fmt |-> "SERVICENOW_TOKEN_URL not set, defaulting to %s",
                          args |-> <<token_url>>]>>
  IN IF ~Truthy(client_id) \/ ~Truthy(client_secret) \/ ~Truthy(username) \/ ~Truthy(password)
     THEN Raise(MsgOAuthRequired)
     ELSE Return(ServerConfig(instance_url,
                   AuthConfig(S_oauth, "oauth",
                     [client_id |-> client_id[1], client_secret |-> client_secret[1],
                      username |-> username[1], password |-> password[1],
                      token_url |-> token_url])), warnings)

\* lines 182-236: the auth type is parsed and its branch taken
AuthBranch(e, instance_url) ==
  LET auth_type_str == Lower(GetenvDefault(e, "SERVICENOW_AUTH_TYPE", S_basic))
  IN IF auth_type_str \notin AuthTypeValues
     THEN Raise(MsgInvalidAuthType(auth_type_str))
     ELSE IF auth_type_str = S_basic THEN BasicBranch(e, instance_url)
     ELSE IF auth_type_str = S_api_key THEN ApiKeyBranch(e, instance_url)
     ELSE OAuthBranch(e, instance_url)

\* a bug: the auth type and the credentials are looked at before the URL
create_config_url_last(e) ==
  LET instance_url == Getenv(e, "SERVICENOW_INSTANCE_URL")
      rest == AuthBranch(e, IF Truthy(instance_url) THEN instance_url[1] ELSE <<>>)
  IN IF rest.raised THEN rest
     ELSE IF ~Truthy(instance_url) THEN Raise(MsgInstanceUrlRequired)
     ELSE rest

\* lines 178-238
create_config_from_env(e) ==
  LET instance_url == Getenv(e, "SERVICENOW_INSTANCE_URL")
  IN IF ~Truthy(instance_url)
     THEN Raise(MsgInstanceUrlRequired)
     ELSE AuthBranch(e, instance_url[1])

----------------------------------------------------------------------------
(* The builder on its own: any environment *)

S_url == <<"h","t","t","p","s",":","/","/","s","n">>

CredValues == OptionOf(StringsUpTo({"x"}, MaxCredLen))

AuthTypeInputs ==
  OptionOf({<<>>, S_basic, <<"B","a","s","i","c">>, S_oauth, <<"O","A","u","t","h">>, S_api_key, <<"A","P","I","_","K","E","Y">>,
            <<"s","a","m","l">>, <<"S","A","M","L">>})

CfgEnvs ==
  [SERVICENOW_INSTANCE_URL : {None, Str(<<>>), Str(S_url)},
   SERVICENOW_AUTH_TYPE : AuthTypeInputs,
   SERVICENOW_USERNAME : CredValues,
   SERVICENOW_PASSWORD : CredValues,
   SERVICENOW_API_KEY : CredValues,
   SERVICENOW_API_KEY_HEADER : OptionOf({<<>>, <<"x">>}),
   SERVICENOW_CLIENT_ID : CredValues,
   SERVICENOW_CLIENT_SECRET : CredValues,
   SERVICENOW_TOKEN_URL : OptionOf({<<>>, <<"x">>}),
   MCP_SERVER_API_KEY : {None},
   MCP_SERVER_API_KEY_HEADER : {None}]

InitCfg ==
  /\ env \in CfgEnvs
  /\ pc = "builder"
  /\ result = None
  /\ configCalls = 0
  /\ log = <<>>
  /\ exitCode = None
  /\ createArgs = None
  /\ app = None
  /\ served = 0
  /\ req = None
  /\ resp = None
  /\ calls = 0
  /\ downstream = None

\* one call of create_config_from_env()
CallCreateConfig ==
  /\ pc = "builder"
  /\ result = None
  /\ result' = Str(create_config_from_env(env))
  /\ configCalls' = configCalls + 1
  /\ UNCHANGED <<env, pc, log, exitCode, createArgs, app, served, req, resp, calls, downstream>>

NextCfg == CallCreateConfig

SpecCfg == InitCfg /\ [][NextCfg]_vars

----------------------------------------------------------------------------
(* main: load_dotenv, create_config_from_env, ServiceNowSSEMCP(config).start *)

MainEnvs ==
  [SERVICENOW_INSTANCE_URL : {None, Str(S_url)},
   SERVICENOW_AUTH_TYPE : {None, Str(S_api_key), Str(<<"S","A","M","L">>)},
   SERVICENOW_USERNAME : {None, Str(<<"x">>)},
   SERVICENOW_PASSWORD : {Str(<<"x">>)},
   SERVICENOW_API_KEY : {None, Str(<<"x">>)},
   SERVICENOW_API_KEY_HEADER : {None},
   SERVICENOW_CLIENT_ID : {None},
   SERVICENOW_CLIENT_SECRET : {None},
   SERVICENOW_TOKEN_URL : {None},
   MCP_SERVER_API_KEY : OptionOf(Keys),
   MCP_SERVER_API_KEY_HEADER : {None, Str(<<>>), Str(H_XCustomAuth)}]

NoEnv ==
  [SERVICENOW_INSTANCE_URL |-> None, SERVICENOW_AUTH_TYPE |-> None,
   SERVICENOW_USERNAME |-> None, SERVICENOW_PASSWORD |-> None,
   SERVICENOW_API_KEY |-> None, SERVICENOW_API_KEY_HEADER |-> None,
   SERVICENOW_CLIENT_ID |-> None, SERVICENOW_CLIENT_SECRET |-> None,
   SERVICENOW_TOKEN_URL |-> None, MCP_SERVER_API_KEY |-> None,
   MCP_SERVER_API_KEY_HEADER |-> None]

\* what a .env file may hold: nothing, or an instance URL and an inbound key
DotenvFiles ==
  {NoEnv,
   [NoEnv EXCEPT !.SERVICENOW_INSTANCE_URL = Str(S_url),
                 !.MCP_SERVER_API_KEY = Str(<<"a">>)]}

\* load_dotenv(): a variable the process already has is not overridden
load_dotenv(e, file) ==
  [n \in DOMAIN e |-> IF e[n] = None THEN file[n] ELSE e[n]]

\* the requests sent to the served application
MainRequests ==
  LET values == {None, Str(<<"a">>), Str(BearerPrefix \o <<"a">>)}
  IN {Headers(a, x, c) : a \in values, x \in values, c \in values}

Init ==
  /\ env \in MainEnvs
  /\ pc = "main"
  /\ result = None
  /\ configCalls = 0
  /\ log = <<>>
  /\ exitCode = None
  /\ createArgs = None
  /\ app = None
  /\ served = 0
  /\ req = None
  /\ resp = None
  /\ calls = 0
  /\ downstream = None

\* main, lines 242-248
MainLoadDotenv ==
  /\ pc = "main"
  /\ \E file \in DotenvFiles : env' = load_dotenv(env, file)
  /\ pc' = "parsed"
  /\ UNCHANGED <<result, configCalls, log, exitCode, createArgs, app, served, req,
                 resp, calls, downstream>>

\* a bug: the error is logged and main goes on to start the server
AfterConfigKeepsGoing(r) ==
  IF r.raised
  THEN [pc |-> "configured", exitCode |-> None,
        logged |-> <<[level |-> "ERROR", fmt |-> "Configuration error: %s",
                      args |-> <<r.message>>]>>]
  ELSE [pc |-> "configured", exitCode |-> None,
        logged |-> r.warnings \o
                   <<[level |-> "INFO", fmt |-> "Starting SSE server for %s with %s auth",
                      args |-> <<r.config.instance_url, r.config.auth.type>>]>>]

\* main, lines 250-261: what follows the call of create_config_from_env
AfterConfig(r) ==
  IF r.raised
  THEN [pc |-> "exited", exitCode |-> Str(1),
        logged |-> <<[level |-> "ERROR", fmt |-> "Configuration error: %s",
                      args |-> <<r.message>>]>>]
  ELSE [pc |-> "configured", exitCode |-> None,
        logged |-> r.warnings \o
                   <<[level |-> "INFO", fmt |-> "Starting SSE server for %s with %s auth",
                      args |-> <<r.config.instance_url, r.config.auth.type>>]>>]

\* main, line 251
MainCreateConfig ==
  /\ pc = "parsed"
  /\ LET r == create_config_from_env(env)
         next == AfterConfig(r)
     IN /\ result' = Str(r)
        /\ pc' = next.pc
        /\ exitCode' = next.exitCode
        /\ log' = log \o next.logged
  /\ configCalls' = configCalls + 1
  /\ UNCHANGED <<env, createArgs, app, served, req, resp, calls, downstream>>

\* main, line 257: ServiceNowSSEMCP(config)
MainConstructServer ==
  /\ pc = "configured"
  /\ pc' = "constructed"
  /\ UNCHANGED <<env, result, configCalls, log, exitCode, createArgs, app, served,
                 req, resp, calls, downstream>>

\* start, line 152: os.getenv("MCP_SERVER_API_KEY_HEADER") or None
OrNone(v) == IF Truthy(v) THEN v ELSE None

\* start, lines 154-159
StartLog(inbound_api_key) ==
  IF Truthy(inbound_api_key)
  THEN [level |-> "INFO", fmt |-> "Inbound API key authentication is enabled",
        args |-> <<>>]
  ELSE [level |-> "WARNING",
        fmt |-> "MCP_SERVER_API_KEY is not set - the /sse endpoint is unprotected",
        args |-> <<>>]

\* ServiceNowSSEMCP.start, up to the point where uvicorn.run serves the application
ServerStart ==
  /\ pc = "constructed"
  /\ LET inbound_api_key == Getenv(env, "MCP_SERVER_API_KEY")
         inbound_api_key_header == OrNone(Getenv(env, "MCP_SERVER_API_KEY_HEADER"))
     IN /\ log' = Append(log, StartLog(inbound_api_key))
        /\ createArgs' = Str([inbound_api_key |-> inbound_api_key,
                              inbound_api_key_header |-> inbound_api_key_header])
        /\ app' = create_starlette_app(inbound_api_key, inbound_api_key_header)
  /\ pc' = "serving"
  /\ UNCHANGED <<env, result, configCalls, exitCode, served, req, resp, calls, downstream>>

\* a request reaches the served application
MainServe ==
  /\ pc = "serving"
  /\ req = None
  /\ served < MaxRequests
  /\ \E r \in MainRequests, down \in DownstreamResponses : HandleRequest(r, down)
  /\ UNCHANGED <<env, pc, result, configCalls, log, exitCode, createArgs, app>>

\* uvicorn.run returns and main with it
MainShutdown ==
  /\ pc = "serving"
  /\ req = None
  /\ pc' = "exited"
  /\ exitCode' = Str(0)
  /\ UNCHANGED <<env, result, configCalls, log, createArgs, app, served, req, resp,
                 calls, downstream>>

Next ==
  \/ MainLoadDotenv
  \/ MainCreateConfig
  \/ MainConstructServer
  \/ ServerStart
  \/ MainServe
  \/ Complete
  \/ MainShutdown

Spec == Init /\ [][Next]_vars

----------------------------------------------------------------------------
(* Properties of the middleware (checked under SpecMw) *)

\* a request has been answered by an application whose chain holds the authenticator
Answered == req # None /\ app.middleware # None

TheMw == app.middleware[1]

TheHeaders == req[1]

AuthorizationOf(h) == h[Lower(H_Authorization)]

XApiKeyOf(h) == h[Lower(H_XApiKey)]

Rejected == resp = Str(UnauthorizedResponse) /\ calls = 0

Forwarded == calls = 1 /\ resp = downstream

\* header_name selects the custom-header mode (the test of line 64)
CustomMode == Truthy(TheMw.header_name)

\* the request carries the key as a Bearer token and in no other header value
OnlyInBearer(h, key) ==
  /\ AuthorizationOf(h) = Str(BearerPrefix \o key)
  /\ \A n \in DOMAIN h : h[n] # Str(key)

\* the request carries the key in X-API-Key and in no other header
OnlyInXApiKey(h, key) ==
  /\ XApiKeyOf(h) = Str(key)
  /\ AuthorizationOf(h) \notin {Str(key), Str(BearerPrefix \o key)}
  /\ h[Lower(H_XCustomAuth)] # Str(key)

\* C1: the next handler runs iff the candidate key equals the expected key
\* exactly; on a difference (an absent candidate included) the answer is the
\* fixed 401 and the handler does not run; on equality it runs once and its
\* response is returned unchanged.
C1_DownstreamIffExactKey ==
  Answered =>
    IF ProvidedKey(TheMw, TheHeaders) = Str(TheMw.api_key)
    THEN calls = 1 /\ resp = downstream
    ELSE calls = 0 /\ resp = Str(UnauthorizedResponse)

C1_Witness ==
  /\ Answered
  /\ TheMw.api_key # <<>>
  /\ AuthorizationOf(TheHeaders) = Str(BearerPrefix \o TheMw.api_key)
  /\ Forwarded

\* C2 as stated: with a custom header_name only that header decides, and a
\* request carrying the key only as a Bearer token, or only in X-API-Key, is
\* rejected.
C2_Original ==
  (Answered /\ CustomMode) =>
    /\ Forwarded <=> HeadersGet(TheHeaders, TheMw.header_name[1], None) = Str(TheMw.api_key)
    /\ OnlyInBearer(TheHeaders, TheMw.api_key) => Rejected
    /\ OnlyInXApiKey(TheHeaders, TheMw.api_key) => Rejected

\* C2 amended: with a custom (non-empty) header_name only that header decides;
\* a request carrying the key only as a Bearer token is rejected, and one
\* carrying it only in X-API-Key is rejected unless header_name names
\* X-API-Key itself (in any letter case).
C2_CustomHeaderOnly ==
  (Answered /\ CustomMode) =>
    /\ Forwarded <=> TheHeaders[Lower(TheMw.header_name[1])] = Str(TheMw.api_key)
    /\ ~Forwarded <=> Rejected
    /\ OnlyInBearer(TheHeaders, TheMw.api_key) => Rejected
    /\ (OnlyInXApiKey(TheHeaders, TheMw.api_key)
          /\ Lower(TheMw.header_name[1]) # Lower(H_XApiKey)) => Rejected

C2_Witness ==
  /\ Answered
  /\ TheMw.header_name = Str(H_XCustomAuth)
  /\ TheMw.api_key # <<>>
  /\ OnlyInBearer(TheHeaders, TheMw.api_key)
  /\ Rejected

\* C3 as stated: a request with neither Authorization nor X-API-Key is
\* answered 401 under every configuration, a custom header included.
C3_Original ==
  (Answered /\ AuthorizationOf(TheHeaders) = None /\ XApiKeyOf(TheHeaders) = None)
    => Rejected

\* C3 amended: a request with neither Authorization nor X-API-Key is answered
\* 401 for every expected key when no custom header_name is configured; with
\* a custom header_name it is answered 401 exactly when that header does not
\* carry the expected key.
C3_NoAuthHeaders ==
  (Answered /\ AuthorizationOf(TheHeaders) = None /\ XApiKeyOf(TheHeaders) = None) =>
    IF CustomMode /\ TheHeaders[Lower(TheMw.header_name[1])] = Str(TheMw.api_key)
    THEN Forwarded
    ELSE Rejected

C3_Witness ==
  /\ Answered
  /\ ~CustomMode
  /\ TheMw.api_key = <<>>
  /\ AuthorizationOf(TheHeaders) = None
  /\ XApiKeyOf(TheHeaders) = None
  /\ Rejected

\* C4: with the empty string as expected key the middleware still rejects
\* whatever does not present exactly the empty value through the expected
\* channel: a non-empty Bearer token, a non-empty X-API-Key value read as the
\* candidate, a non-empty custom header, and a missing key header.
C4_EmptyKeyNotDisabled ==
  (Answered /\ TheMw.api_key = <<>>) =>
    LET h == TheHeaders
        auth == AuthorizationOf(h)
        bearer == auth # None /\ StartsWith(auth[1], BearerPrefix)
    IN /\ (~CustomMode /\ bearer /\ auth # Str(BearerPrefix)) => Rejected
       /\ (~CustomMode /\ ~bearer /\ XApiKeyOf(h) # Str(<<>>)) => Rejected
       /\ (CustomMode /\ h[Lower(TheMw.header_name[1])] # Str(<<>>)) => Rejected
       /\ (~CustomMode /\ auth = Str(BearerPrefix)) => Forwarded
       /\ (~CustomMode /\ ~bearer /\ XApiKeyOf(h) = Str(<<>>)) => Forwarded
       /\ (CustomMode /\ h[Lower(TheMw.header_name[1])] = Str(<<>>)) => Forwarded

C4_Witness ==
  /\ Answered
  /\ TheMw.api_key = <<>>
  /\ ~CustomMode
  /\ \A n \in DOMAIN TheHeaders : TheHeaders[n] = None
  /\ Rejected

\* C10: without a custom header_name the candidate is what follows "Bearer "
\* whenever Authorization starts with it, and X-API-Key is read only
\* otherwise: the right key in X-API-Key is accepted when Authorization is
\* absent or not Bearer-prefixed, and rejected beside a wrong Bearer token.
C10_BearerBeforeXApiKey ==
  (Answered /\ ~CustomMode) =>
    LET h == TheHeaders
        key == TheMw.api_key
        auth == AuthorizationOf(h)
        bearer == auth # None /\ StartsWith(auth[1], BearerPrefix)
    IN /\ bearer => (Forwarded <=> auth[1] = BearerPrefix \o key)
       /\ ~bearer => (Forwarded <=> XApiKeyOf(h) = Str(key))
       /\ ~Forwarded <=> Rejected
       /\ (bearer /\ auth[1] # BearerPrefix \o key /\ XApiKeyOf(h) = Str(key)) => Rejected

C10_Witness ==
  /\ Answered
  /\ ~CustomMode
  /\ TheMw.api_key # <<>>
  /\ XApiKeyOf(TheHeaders) = Str(TheMw.api_key)
  /\ AuthorizationOf(TheHeaders) # None
  /\ StartsWith(AuthorizationOf(TheHeaders)[1], BearerPrefix)
  /\ Rejected

----------------------------------------------------------------------------
(* Properties of the builder (checked under SpecCfg) *)

Built == result # None /\ ~result[1].raised

Failed == result # None /\ result[1].raised

\* the credential variants of an auth record that are populated
Populated(auth) ==
  {v \in {"basic", "api_key", "oauth"} :
     CASE v = "basic" -> auth.basic # None
       [] v = "api_key" -> auth.api_key # None
       [] v = "oauth" -> auth.oauth # None}

\* the type tag names the variant, and the variant's required fields are non-empty
VariantMatches(auth) ==
  \/ /\ auth.type = S_basic
     /\ auth.basic # None
     /\ auth.basic[1].username # <<>>
     /\ auth.basic[1].password # <<>>
  \/ /\ auth.type = S_api_key
     /\ auth.api_key # None
     /\ auth.api_key[1].api_key # <<>>
  \/ /\ auth.type = S_oauth
     /\ auth.oauth # None
     /\ auth.oauth[1].client_id # <<>>
     /\ auth.oauth[1].client_secret # <<>>
     /\ auth.oauth[1].username # <<>>
     /\ auth.oauth[1].password # <<>>
     /\ auth.oauth[1].token_url # <<>>

WellFormed(config) ==
  /\ config.instance_url # <<>>
  /\ Cardinality(Populated(config.auth)) = 1
  /\ VariantMatches(config.auth)

\* C6: create_config_from_env raises and returns nothing, or returns a
\* ServerConfig with a non-empty instance_url and exactly one populated
\* credential variant, the one its type tag names, with its required fields
\* non-empty.
C6_AllOrNothing ==
  result # None =>
    IF result[1].raised
    THEN "config" \notin DOMAIN result[1]
    ELSE WellFormed(result[1].config)

C6_Witness ==
  /\ Built
  /\ result[1].config.auth.type = S_oauth
  /\ env.SERVICENOW_TOKEN_URL = None
  /\ result[1].config.auth.oauth[1].token_url = S_url \o TokenUrlSuffix

\* the auth type as the environment supplies it
SuppliedAuthType == env.SERVICENOW_AUTH_TYPE

\* the builder was called with the instance URL present and an auth type
\* outside {basic, api_key, oauth}, letter case ignored
InvalidAuthTypeCase ==
  /\ result # None
  /\ Truthy(env.SERVICENOW_INSTANCE_URL)
  /\ SuppliedAuthType # None
  /\ Lower(SuppliedAuthType[1]) \notin AuthTypeValues

\* C7: for an auth type outside {basic, api_key, oauth}, letter case ignored,
\* and the instance URL present, the builder fails and the message contains
\* the offending value as the environment supplied it.
C7_MessageEchoesSuppliedValue ==
  InvalidAuthTypeCase =>
    /\ Failed
    /\ Contains(result[1].message, SuppliedAuthType[1])

\* C9: with the instance URL absent or empty the builder fails with the error
\* that names SERVICENOW_INSTANCE_URL, whatever the other variables hold.
C9_MissingUrlFirst ==
  (result # None /\ ~Truthy(env.SERVICENOW_INSTANCE_URL)) =>
    /\ Failed
    /\ result[1].message = MsgInstanceUrlRequired
    /\ Contains(result[1].message, S_InstanceUrlVar)

C9_Witness ==
  /\ Failed
  /\ env.SERVICENOW_INSTANCE_URL = Str(<<>>)
  /\ env.SERVICENOW_AUTH_TYPE = Str(<<"S","A","M","L">>)
  /\ env.SERVICENOW_USERNAME = None
  /\ result[1].message = MsgInstanceUrlRequired

----------------------------------------------------------------------------
(* Properties of main (checked under Spec) *)

\* C5: start passes the value of MCP_SERVER_API_KEY to create_starlette_app
\* (None when unset); the authenticator is in the chain only if a key was
\* supplied, and without one every request reaches the next handler.
C5_ActivationRule ==
  createArgs # None =>
    /\ createArgs[1].inbound_api_key = env.MCP_SERVER_API_KEY
    /\ app.middleware # None => env.MCP_SERVER_API_KEY # None
    /\ app.middleware # None => app.middleware[1].api_key = env.MCP_SERVER_API_KEY[1]
    /\ env.MCP_SERVER_API_KEY = None =>
         /\ createArgs[1].inbound_api_key = None
         /\ app.middleware = None
         /\ req # None => Forwarded

C5_Witness ==
  /\ pc = "serving"
  /\ env.MCP_SERVER_API_KEY = None
  /\ req # None
  /\ \A n \in DOMAIN req[1] : req[1][n] = None
  /\ Forwarded

ErrorLogged ==
  \E i \in 1..Len(log) :
    log[i] = [level |-> "ERROR", fmt |-> "Configuration error: %s",
              args |-> <<result[1].message>>]

\* the HTTP server has been started
ServerStarted == app # None \/ createArgs # None \/ served > 0 \/ req # None

\* C8: in main create_config_from_env runs once and before the server is
\* constructed and serves; when it raises, the error is logged, the exit
\* status is 1 and the server is never started; nothing serves without a
\* fully built ServerConfig.
C8_ConfigBeforeServing ==
  /\ configCalls <= 1
  /\ pc \in {"main", "parsed"} => (configCalls = 0 /\ ~ServerStarted)
  /\ pc \in {"configured", "constructed", "serving"} =>
       (configCalls = 1 /\ Built /\ WellFormed(result[1].config) /\ exitCode = None)
  /\ ServerStarted => (configCalls = 1 /\ Built /\ WellFormed(result[1].config))
  /\ Failed => (pc = "exited" /\ exitCode = Str(1) /\ ErrorLogged /\ ~ServerStarted)

C8_Witness ==
  /\ Failed
  /\ pc = "exited"
  /\ exitCode = Str(1)
  /\ ErrorLogged

\* the warning of start, lines 157-159, has been logged
UnprotectedWarningLogged ==
  \E i \in 1..Len(log) : log[i] = StartLog(None) /\ log[i].level = "WARNING"

\* start has logged that inbound authentication is enabled (line 155)
EnabledInfoLogged ==
  \E i \in 1..Len(log) : log[i].level = "INFO" /\ log[i] = StartLog(Str(<<"a">>))

\* C11: the authenticator is installed iff the inbound key is a non-empty
\* string, so no served application has an authenticator whose expected key
\* is empty; MCP_SERVER_API_KEY set to "" is treated like an unset one: no
\* middleware, the unprotected-endpoint warning logged, every request passed on.
C11_InstalledIffNonEmptyKey ==
  createArgs # None =>
    LET key == env.MCP_SERVER_API_KEY
    IN /\ app.middleware # None <=> (key # None /\ key[1] # <<>>)
       /\ app.middleware # None =>
            (app.middleware[1].api_key # <<>> /\ EnabledInfoLogged
               /\ ~UnprotectedWarningLogged)
       /\ (key = None \/ key = Str(<<>>)) =>
            /\ app.middleware = None
            /\ UnprotectedWarningLogged
            /\ ~EnabledInfoLogged
            /\ req # None => Forwarded

C11_Witness ==
  /\ pc = "serving"
  /\ env.MCP_SERVER_API_KEY = Str(<<>>)
  /\ app.middleware = None
  /\ UnprotectedWarningLogged
  /\ req # None
  /\ \A n \in DOMAIN req[1] : req[1][n] = None
  /\ Forwarded

====
